---------------------------- MODULE Spec2Model ----------------------------
(***************************************************************************)
(* A model of server/renderer.ts: the SSR renderer of the framework.       *)
(*                                                                         *)
(*   fetch(req, ctx, options)  one request: engine readiness, initSSR,     *)
(*                             redirect short-circuit, render callback,    *)
(*                             style collection, cache headers, the        *)
(*                             static path, the streaming rewrite          *)
(*   initSSR(req, ctx, routes) route matching and concurrent data loading  *)
(*                                                                         *)
(* Path names are sequences of segments: "/" is <<"">>, "/blog/hello" is   *)
(* <<"blog", "hello">>, so that pathname + "/index" is Append(p, "index")  *)
(* ("/" + "/index" is "//index", i.e. <<"", "index">>).                    *)
(***************************************************************************)
EXTENDS Integers, Sequences, FiniteSets, TLC

(***************************************************************************)
(* Bounds of the model.                                                    *)
(***************************************************************************)
\* longest route table drawn for the route-matching specification
MaxRoutes == 3
\* longest module list drawn for the rendering specification
MaxModules == 3
\* most calls of fetch in flight at once
MaxReq == 2

(***************************************************************************)
(* Generic helpers.                                                        *)
(***************************************************************************)
Range(s) == {s[i] : i \in 1..Len(s)}

\* the sequences over S of length 0..n without repeated elements
DistinctSeqs(S, n) ==
  {s \in UNION {[1..m -> S] : m \in 0..n} :
     \A i, j \in 1..Len(s) : i # j => s[i] # s[j]}

(***************************************************************************)
(* Routes.  A Route is [pattern, imp, meta]; the model keeps the pattern's *)
(* pathname, meta.nesting and meta.filename (the loader imp is modelled by *)
(* the module registry, see `imports').                                    *)
(***************************************************************************)
APP_PATHNAME == <<"_app">>
NOTFOUND_PATHNAME == <<"_404">>

\* the pattern segments that are named groups (":slug"): they match any one
\* non-empty segment
Params == {":slug", ":user"}
\* a last pattern segment that is an optional group (":slug?"): it matches
\* one non-empty segment or none
OptionalParams == {":slug?"}

RouteApp      == [pathname |-> <<"_app">>,          nesting |-> TRUE,  filename |-> "./routes/_app.tsx"]
Route404      == [pathname |-> <<"_404">>,          nesting |-> FALSE, filename |-> "./routes/_404.tsx"]
RouteIndex    == [pathname |-> <<"">>,              nesting |-> FALSE, filename |-> "./routes/index.tsx"]
RouteBlog     == [pathname |-> <<"blog">>,          nesting |-> TRUE,  filename |-> "./routes/blog.tsx"]
RouteBlogIdx  == [pathname |-> <<"blog", "index">>, nesting |-> FALSE, filename |-> "./routes/blog/index.tsx"]
RouteBlogPost == [pathname |-> <<"blog", ":slug">>, nesting |-> FALSE, filename |-> "./routes/blog/[slug].tsx"]
RouteSlug     == [pathname |-> <<":slug">>,         nesting |-> FALSE, filename |-> "./routes/[slug].tsx"]
RouteUser     == [pathname |-> <<":user">>,         nesting |-> TRUE,  filename |-> "./routes/[user].tsx"]
RouteRoot     == [pathname |-> <<"">>,              nesting |-> TRUE,  filename |-> "./routes/root.tsx"]
RouteBlogOpt  == [pathname |-> <<"blog", ":slug?">>, nesting |-> TRUE, filename |-> "./routes/blog/[[slug]].tsx"]

RouteCatalogue ==
  {RouteApp, Route404, RouteIndex, RouteBlog, RouteBlogIdx, RouteBlogPost, RouteSlug, RouteUser,
   RouteRoot, RouteBlogOpt}

\* the request path names drawn
RequestPaths ==
  { <<"">>, <<"blog">>, <<"blog", "hello">>, <<"blog", "hello", "x">>,
    <<"_app">>, <<"_404">>, <<"nope">>, <<"nope", "deeper">> }

(***************************************************************************)
(* pattern.exec({host, pathname}): the host always matches (one host); the *)
(* pathname matches segment by segment.  The result keeps pathname.input.  *)
(***************************************************************************)
Exec(route, pathname) ==
  LET p == route.pathname
      n == Len(p)
      SegOk(i) == \/ p[i] = pathname[i]
                  \/ p[i] \in Params \cup OptionalParams /\ pathname[i] # ""
  IN  \/ /\ n = Len(pathname)
         /\ \A i \in 1..n : SegOk(i)
      \/ /\ n > 0 /\ p[n] \in OptionalParams
         /\ IF n = 1 THEN pathname = <<"">>
            ELSE Len(pathname) = n - 1 /\ \A i \in 1..(n - 1) : SegOk(i)

\* util.splitPath: the non-empty segments of a path name
splitPath(pathname) == SelectSeq(pathname, LAMBDA s : s # "")

\* a RouteMatch [ret, route]: ret.pathname.input, the route, and whether ret
\* was made by createStaticURLPatternResult instead of pattern.exec
RouteMatch(input, route, static) == [input |-> input, route |-> route, static |-> static]

createStaticURLPatternResult(pathname, route) == RouteMatch(pathname, route, TRUE)

\* for (const route of routes) { if (...) { ...; break } }: of the indexes
\* of the routes that satisfy the condition, the first in table order; 0 when
\* there is none
FirstRoute(hits) ==
  IF hits = {} THEN 0 ELSE CHOOSE k \in hits : \A j \in hits : k <= j

\* lines 238-246: the index sibling of a matched nesting route
IndexSibling(routes, pathname) ==
  LET k == FirstRoute({j \in 1..Len(routes) : Exec(routes[j], Append(pathname, "index"))})
  IN  IF k = 0 THEN <<>>
      ELSE <<RouteMatch(Append(pathname, "index"), routes[k], FALSE)>>

\* lines 248-256: for (let i = parts.length - 1; i > 0; i--), first hit wins
RECURSIVE AncestorFrom(_, _, _)
AncestorFrom(route, parts, i) ==
  IF i <= 0 THEN <<>>
  ELSE IF Exec(route, SubSeq(parts, 1, i))
       THEN <<RouteMatch(SubSeq(parts, 1, i), route, FALSE)>>
       ELSE AncestorFrom(route, parts, i - 1)

\* (the mutant: the prefixes are tried from the shortest up)
RECURSIVE AncestorUpFrom(_, _, _)
AncestorUpFrom(route, parts, i) ==
  IF i >= Len(parts) THEN <<>>
  ELSE IF Exec(route, SubSeq(parts, 1, i))
       THEN <<RouteMatch(SubSeq(parts, 1, i), route, FALSE)>>
       ELSE AncestorUpFrom(route, parts, i + 1)

AncestorShortestFirst(route, pathname) ==
  AncestorUpFrom(route, splitPath(pathname), 1)

Ancestor(route, pathname) ==
  LET parts == splitPath(pathname)
  IN  AncestorFrom(route, parts, Len(parts) - 1)

\* lines 233-258: what one route of the table scan pushes onto matches
ScanRoute(routes, route, pathname) ==
  IF Exec(route, pathname)
  THEN <<RouteMatch(pathname, route, FALSE)>>
       \o (IF route.nesting /\ route.pathname # APP_PATHNAME
           THEN IndexSibling(routes, pathname) ELSE <<>>)
  ELSE IF route.nesting THEN Ancestor(route, pathname) ELSE <<>>

RECURSIVE ScanFrom(_, _, _)
ScanFrom(routes, k, pathname) ==
  IF k > Len(routes) THEN <<>>
  ELSE ScanRoute(routes, routes[k], pathname) \o ScanFrom(routes, k + 1, pathname)

\* routes.forEach(...) of lines 233-258
Scan(routes, pathname) == ScanFrom(routes, 1, pathname)

\* lines 259-266: the not-found fallback, appended when no leaf was recorded
NotFoundFallbackAlways(routes, matches) ==
  LET k == FirstRoute({j \in 1..Len(routes) : routes[j].pathname = NOTFOUND_PATHNAME})
  IN  IF k # 0
      THEN Append(matches, createStaticURLPatternResult(NOTFOUND_PATHNAME, routes[k]))
      ELSE matches

NotFoundFallback(routes, matches) ==
  IF \A i \in 1..Len(matches) : matches[i].route.nesting
  THEN LET k == FirstRoute({j \in 1..Len(routes) : routes[j].pathname = NOTFOUND_PATHNAME})
       IN  IF k # 0
           THEN Append(matches, createStaticURLPatternResult(NOTFOUND_PATHNAME, routes[k]))
           ELSE matches
  ELSE matches

\* lines 267-275: the root layout, prepended unless the first match's input
\* path name is "/_app"
RootLayout(routes, matches) ==
  IF Len(matches) > 0 /\ matches[1].input # APP_PATHNAME
  THEN LET k == FirstRoute({j \in 1..Len(routes) : routes[j].pathname = APP_PATHNAME})
       IN  IF k # 0
           THEN <<createStaticURLPatternResult(APP_PATHNAME, routes[k])>> \o matches
           ELSE matches
  ELSE matches

\* lines 231-275: the match list of initSSR
MatchRoutes(routes, pathname) ==
  IF Len(routes) > 0
  THEN RootLayout(routes, NotFoundFallback(routes, Scan(routes, pathname)))
  ELSE <<>>

(***************************************************************************)
(* Route modules and their data fetch (initSSR, lines 276-314).            *)
(*                                                                         *)
(* What `await imp()` yields is a ModuleKind: whether the import fails,    *)
(* whether the module has a default export, data.cacheTtl, and what        *)
(* data.get is: "none" (no function), "sync" (returns its result) or       *)
(* "async" (returns a Promise of it).  The result `res' of the fetcher is  *)
(* a Response (status, Location header present or not, body valid JSON or  *)
(* not), some other value, or a thrown failure.                            *)
(***************************************************************************)
\* JavaScript values of data.cacheTtl: undefined, a string, NaN, a number
TtlUndefined == [type |-> "undefined", nan |-> FALSE, n |-> 0]
TtlString    == [type |-> "string",    nan |-> FALSE, n |-> 0]
TtlNaN       == [type |-> "number",    nan |-> TRUE,  n |-> 0]
TtlNumber(n) == [type |-> "number",    nan |-> FALSE, n |-> n]

NoRes == [kind |-> "other", status |-> 0, location |-> FALSE, json |-> FALSE]
Res(status, location, json) ==
  [kind |-> "response", status |-> status, location |-> location, json |-> json]
ResThrows == [kind |-> "throws", status |-> 0, location |-> FALSE, json |-> FALSE]

ModuleKind(importOk, hasDefault, cacheTtl, get, res) ==
  [importOk |-> importOk, hasDefault |-> hasDefault, cacheTtl |-> cacheTtl,
   get |-> get, res |-> res]

PlainModule == ModuleKind(TRUE, TRUE, TtlUndefined, "none", NoRes)

\* modules that differ in data.cacheTtl only
TtlModuleKinds ==
  {ModuleKind(TRUE, TRUE, t, "none", NoRes) :
     t \in {TtlNumber(60), TtlNumber(120), TtlNumber(0), TtlNaN, TtlString}}

\* modules that differ in what their data fetch does
FetchModuleKinds ==
  { ModuleKind(TRUE, TRUE,  TtlNumber(30),  "async", Res(200, FALSE, TRUE)),
    ModuleKind(TRUE, TRUE,  TtlUndefined,   "sync",  Res(200, FALSE, FALSE)),
    ModuleKind(TRUE, TRUE,  TtlUndefined,   "async", Res(404, FALSE, TRUE)),
    ModuleKind(TRUE, TRUE,  TtlNumber(10),  "async", Res(302, TRUE,  TRUE)),
    ModuleKind(TRUE, TRUE,  TtlUndefined,   "sync",  Res(301, TRUE,  TRUE)),
    ModuleKind(TRUE, FALSE, TtlUndefined,   "async", Res(302, TRUE,  TRUE)),
    ModuleKind(TRUE, TRUE,  TtlUndefined,   "async", Res(302, FALSE, TRUE)),
    ModuleKind(TRUE, TRUE,  TtlUndefined,   "sync",  NoRes),
    ModuleKind(TRUE, TRUE,  TtlUndefined,   "async", ResThrows),
    ModuleKind(TRUE, FALSE, TtlNumber(60),  "none",  NoRes),
    ModuleKind(FALSE, TRUE, TtlUndefined,   "none",  NoRes) }

ModuleKinds == {PlainModule} \cup TtlModuleKinds \cup FetchModuleKinds

NoError == [set |-> FALSE, message |-> "", status |-> 0]
Error(message, status) == [set |-> TRUE, message |-> message, status |-> status]
NoRedirect == [set |-> FALSE, status |-> 0, location |-> FALSE]
\* ssrModule.redirect = { headers: res.headers, status: res.status }
Redirect(res) == [set |-> TRUE, status |-> res.status, location |-> res.location]

\* lines 279-284: the SSRModule as created, before the data fetch
NewSSRModule(match, mod) ==
  [url          |-> match.input,
   filename     |-> match.route.filename,
   defaultExport |-> mod.hasDefault,
   dataCacheTtl |-> mod.cacheTtl,
   data         |-> "undefined",
   error        |-> NoError,
   redirect     |-> NoRedirect]

\* a load of matches.map(async ...): where it is suspended, and its SSRModule
Load(pc, ssrModule) == [pc |-> pc, ssrModule |-> ssrModule]

\* lines 292-310: interpreting the value `res' the fetcher produced; the load
\* either returns ("done") or suspends at res.text() / res.json().
\* A 3xx response that sets both redirect and error (the mutant of line 298).
InterpretBoth(ssrModule, res) ==
  IF res.kind # "response" THEN Load("done", ssrModule)
  ELSE IF res.status >= 400 THEN Load("text", ssrModule)
  ELSE IF res.status >= 300
       THEN Load("done", [ssrModule EXCEPT
                            !.redirect = Redirect(res),
                            !.error = IF res.location THEN @
                                      ELSE Error("Missing the Location header", 400)])
  ELSE Load("json", ssrModule)

Interpret(ssrModule, res) ==
  IF res.kind # "response" THEN Load("done", ssrModule)
  ELSE IF res.status >= 400 THEN Load("text", ssrModule)
  ELSE IF res.status >= 300
       THEN IF res.location
            THEN Load("done", [ssrModule EXCEPT !.redirect = Redirect(res)])
            ELSE Load("done", [ssrModule EXCEPT
                                 !.error = Error("Missing the Location header", 400)])
  ELSE Load("json", ssrModule)

\* lines 277-291: the continuation of `await imp()`: the SSRModule is created
\* and the fetcher, when data.get is a function, is called
AfterImport(match, mod) ==
  LET ssrModule == NewSSRModule(match, mod)
  IN  IF ~mod.importOk THEN Load("rejected", ssrModule)
      ELSE IF mod.get = "none" THEN Load("done", ssrModule)
      ELSE IF mod.get = "async" THEN Load("fetch", ssrModule)
      ELSE IF mod.res.kind = "throws" THEN Load("rejected", ssrModule)
      ELSE Interpret(ssrModule, mod.res)

\* lines 289-291: the continuation of `res = await res`
\* (the mutant: a failure of the data fetch is kept on the module as an error)
AfterFetchIsolated(ssrModule, mod) ==
  IF mod.res.kind = "throws"
  THEN Load("done", [ssrModule EXCEPT !.error = Error("fetch failed", 500)])
  ELSE Interpret(ssrModule, mod.res)

AfterFetch(ssrModule, mod) ==
  IF mod.res.kind = "throws" THEN Load("rejected", ssrModule)
  ELSE Interpret(ssrModule, mod.res)

\* lines 294-295 and 305-309: the continuation of res.text() / res.json()
\* (the mutant: a body that is not JSON gives an error with the response's
\* status)
AfterBodyResStatus(load, mod) ==
  IF load.pc = "text"
  THEN Load("done", [load.ssrModule EXCEPT !.error = Error("body text", mod.res.status)])
  ELSE IF mod.res.json
       THEN Load("done", [load.ssrModule EXCEPT !.data = "json"])
       ELSE Load("done", [load.ssrModule EXCEPT
                            !.error = Error("Data must be valid JSON", mod.res.status)])

AfterBody(load, mod) ==
  IF load.pc = "text"
  THEN Load("done", [load.ssrModule EXCEPT !.error = Error("body text", mod.res.status)])
  ELSE IF mod.res.json
       THEN Load("done", [load.ssrModule EXCEPT !.data = "json"])
       ELSE Load("done", [load.ssrModule EXCEPT !.error = Error("Data must be valid JSON", 400)])

\* Promise.all: the result array has one slot per load; the result of load i
\* is stored in slot i, whenever the load completes.
PendingResult == [set |-> FALSE, ssrModule |-> NewSSRModule(RouteMatch(<<>>, RouteApp, FALSE), PlainModule)]

\* (the mutant: a result is pushed to the first free slot, in completion order)
StoreInCompletionOrder(results, i, ssrModule) ==
  LET free == CHOOSE k \in 1..Len(results) :
                ~results[k].set /\ \A j \in 1..(k - 1) : results[j].set
  IN  [results EXCEPT ![free] = [set |-> TRUE, ssrModule |-> ssrModule]]

StoreResult(results, i, ssrModule) ==
  [results EXCEPT ![i] = [set |-> TRUE, ssrModule |-> ssrModule]]

\* line 314: modules.filter(({ defaultExport }) => defaultExport !== undefined)
\* (the mutant: no filter)
AllModules(results) == [i \in 1..Len(results) |-> results[i].ssrModule]

SurvivingModules(results) ==
  SelectSeq([i \in 1..Len(results) |-> results[i].ssrModule],
            LAMBDA m : m.defaultExport)

(***************************************************************************)
(* Response headers (lines 33, 113-122, 136, 144-150).  A header value is  *)
(* its text with the number printed into it kept apart.                    *)
(***************************************************************************)
HeaderValue(text, n, tail) == [text |-> text, n |-> n, tail |-> tail]
Header(name, value) == [name |-> name, value |-> value]

ContentType == Header("Content-Type", HeaderValue("text/html; charset=utf-8", 0, ""))
\* `public, max-age=${n}`
MaxAge(n) == Header("Cache-Control", HeaderValue("public, max-age=", n, ""))
NoCache == Header("Cache-Control", HeaderValue("public, max-age=", 0, ", must-revalidate"))
LastModified(mtimeUTC) == Header("Last-Modified", HeaderValue("UTC", mtimeUTC, ""))

\* lines 113-115: the dataCacheTtl values that are numbers, not NaN and > 0
PositiveTtl(ttl) == ttl.type = "number" /\ ~ttl.nan /\ ttl.n > 0

Ttls(modules) ==
  LET kept == SelectSeq(modules, LAMBDA m : PositiveTtl(m.dataCacheTtl))
  IN  [i \in 1..Len(kept) |-> kept[i].dataCacheTtl.n]

\* Math.min(...ttls), for a non-empty list
RECURSIVE MathMin(_)
MathMin(ttls) ==
  IF Len(ttls) = 1 THEN ttls[1]
  ELSE LET rest == MathMin(Tail(ttls))
       IN  IF ttls[1] < rest THEN ttls[1] ELSE rest

\* lines 116-122 (the mutant: the first TTL instead of the minimum)
CacheControlFirst(modules) ==
  LET ttls == Ttls(modules)
  IN  IF Len(ttls) >= 1 THEN MaxAge(ttls[1]) ELSE NoCache

CacheControl(modules) ==
  LET ttls == Ttls(modules)
  IN  IF Len(ttls) > 1 THEN MaxAge(MathMin(ttls))
      ELSE IF Len(ttls) = 1 THEN MaxAge(ttls[1])
      ELSE NoCache

\* stat.mtime.toUTCString(): a Date counts milliseconds, its UTC text seconds
MsPerSecond == 1000
toUTCString(mtime) == mtime \div MsPerSecond

(***************************************************************************)
(* Head fragments and style collection (lines 49, 57-81).                  *)
(***************************************************************************)
\* a string of headCollection: what the render callback pushed (html) or a
\* <style data-module-id=...> tag; text "" is the empty string
Fragment(kind, text) == [kind |-> kind, text |-> text]

\* util.isFilledString
isFilledString(h) == h.text # ""

\* a module of the dependency graph: its specifier, whether the specifier
\* ends with ".css", mod.inlineCSS, and whether the atomic CSS generator
\* yields any css for it
Dep(specifier, isCss, inlineCSS, css) ==
  [specifier |-> specifier, isCss |-> isCss, inlineCSS |-> inlineCSS, css |-> css]

\* serverDependencyGraph.walk(filename, visitor): the modules visited, in order
Walk(filename) ==
  CASE filename = "./routes/_app.tsx" ->
         << Dep("./routes/_app.tsx", FALSE, FALSE, FALSE),
            Dep("./style/app.css", TRUE, FALSE, FALSE) >>
    [] filename = "./routes/blog.tsx" ->
         << Dep("./routes/blog.tsx", FALSE, TRUE, TRUE) >>
    [] filename = "./routes/blog/[slug].tsx" ->
         << Dep("./routes/blog/[slug].tsx", FALSE, TRUE, FALSE),
            Dep("./style/app.css", TRUE, FALSE, FALSE) >>
    [] filename = "./routes/index.tsx" ->
         << Dep("./routes/index.tsx", FALSE, TRUE, TRUE) >>
    [] OTHER -> <<>>

\* lines 57-64: the style modules of the rendered modules, in discovery order
RECURSIVE StyleModules(_, _)
StyleModules(modules, graphDefined) ==
  IF modules = <<>> \/ ~graphDefined THEN <<>>
  ELSE SelectSeq(Walk(modules[1].filename), LAMBDA mod : mod.inlineCSS \/ mod.isCss)
       \o StyleModules(Tail(modules), graphDefined)

\* lines 65-80: one string per style module, "" when the generator yields no css
StyleTag(mod) ==
  IF mod.isCss THEN Fragment("style", mod.specifier)
  ELSE IF mod.inlineCSS /\ mod.css THEN Fragment("style", mod.specifier)
  ELSE Fragment("style", "")

Styles(modules, graphDefined) ==
  LET styleModules == StyleModules(modules, graphDefined)
  IN  [i \in 1..Len(styleModules) |-> StyleTag(styleModules[i])]

(***************************************************************************)
(* The template and the streaming rewrite (lines 83-112, 126-135,          *)
(* 153-224).  The template is a forest of elements; the output is the      *)
(* sequence of tokens written, i.e. concat(...chunks).  Content inserted   *)
(* by a handler is not parsed again, so no handler visits it.              *)
(***************************************************************************)
\* an href / src attribute: absent (or ""), an http(s) URL, or a path
NoUrl == [set |-> FALSE, http |-> FALSE, segs |-> <<>>]
HttpUrl(segs) == [set |-> TRUE, http |-> TRUE, segs |-> segs]
PathUrl(segs) == [set |-> TRUE, http |-> FALSE, segs |-> segs]

Element(tag, url, type, children) ==
  [tag |-> tag, url |-> url, type |-> type, moduleId |-> <<>>, children |-> children]

\* util.isLikelyHttpURL
isLikelyHttpURL(url) == url.http

\* util.cleanPath: "/" + splitPath(path).join("/"), "." segments dropped
cleanPath(url) ==
  [url EXCEPT !.segs = SelectSeq(url.segs, LAMBDA x : x # "" /\ x # ".")]

\* href.endsWith(".css")
CssFiles == {"app.css", "main.css"}
endsWithCss(url) == Len(url.segs) > 0 /\ url.segs[Len(url.segs)] \in CssFiles

Token(k, v) == [k |-> k, v |-> v]
OpenTag(el) == Token("open", [tag |-> el.tag, url |-> el.url, type |-> el.type,
                              moduleId |-> el.moduleId])
CloseTag(el) == Token("close", el.tag)

\* line 91-97: the records of the hydration-data script
SsrData(modules) ==
  [i \in 1..Len(modules) |->
     [url |-> modules[i].url, module |-> modules[i].filename,
      error |-> modules[i].error, data |-> modules[i].data,
      dataCacheTtl |-> modules[i].dataCacheTtl]]

\* lines 87-90: the imports and the keys of window.__ROUTE_MODULES
RouteModules(modules) == [i \in 1..Len(modules) |-> modules[i].filename]

\* what the handlers have done to the element being visited
Mutations(el, st) ==
  [before |-> <<>>, el |-> el, removed |-> FALSE, replaced |-> FALSE,
   replacement |-> <<>>, append |-> <<>>, after |-> <<>>, st |-> st]

\* the ssr-head handler of a failed render (lines 126-130), also the mutant
\* of the handler of lines 83-107 that keeps nothing
\* (the mutant: the fragments collected before the failure are inserted)
SsrHeadKeepsFragments(mu, ctx) ==
  LET filled == SelectSeq(ctx.headCollection, isFilledString)
  IN  [mu EXCEPT !.before = @ \o [i \in 1..Len(filled) |-> Token("head", filled[i])],
                 !.removed = TRUE]

SsrHeadRemoveOnly(mu, ctx) == [mu EXCEPT !.removed = TRUE]

\* lines 83-107: the ssr-head handler of a successful render
\* (the mutant: the two scripts are inserted before the fragments)
SsrHeadScriptsFirst(mu, ctx) ==
  LET filled == SelectSeq(ctx.headCollection, isFilledString)
      heads  == [i \in 1..Len(filled) |-> Token("head", filled[i])]
      scripts == IF Len(ctx.modules) > 0
                 THEN << Token("ssr-data", SsrData(ctx.modules)),
                         Token("route-modules", RouteModules(ctx.modules)) >>
                 ELSE <<>>
  IN  [mu EXCEPT !.before = @ \o scripts \o heads, !.removed = TRUE]

SsrHeadHandler(mu, ctx) ==
  LET filled == SelectSeq(ctx.headCollection, isFilledString)
      heads  == [i \in 1..Len(filled) |-> Token("head", filled[i])]
      scripts == IF Len(ctx.modules) > 0
                 THEN << Token("ssr-data", SsrData(ctx.modules)),
                         Token("route-modules", RouteModules(ctx.modules)) >>
                 ELSE <<>>
  IN  [mu EXCEPT !.before = @ \o heads \o scripts, !.removed = TRUE]

\* lines 108-112 and 131-135: the ssr-body handlers
SsrBodyHandler(mu, ctx) ==
  [mu EXCEPT !.replaced = TRUE,
             !.replacement = IF ctx.mode = "ok"
                             THEN <<Token("ssr-output", ctx.ssrOutput)>>
                             ELSE <<Token("error-stack", ctx.error)>>]

\* line 216: a handler of customHTMLRewriter (caller's code; here it marks
\* the element it visits)
CustomHandler(mu, ctx) == [mu EXCEPT !.before = Append(@, Token("custom", mu.el.tag))]

\* lines 154-175: linkHandler
LinkHandler(mu, ctx) ==
  LET href == mu.el.url
      isUrl == isLikelyHttpURL(href)
      href2 == IF isUrl THEN href ELSE cleanPath(href)
      specifier == <<".">> \o href2.segs
  IN  IF ~href.set THEN mu
      ELSE IF endsWithCss(href2) /\ ~isUrl /\ ctx.isDev
           THEN [mu EXCEPT !.el = [@ EXCEPT !.url = href2, !.moduleId = specifier],
                           !.after = <<Token("hmr-css", specifier)>> \o @]
           ELSE [mu EXCEPT !.el = [@ EXCEPT !.url = href2]]

\* lines 176-188: scriptHandler (the mutant: the flag is never set)
ScriptHandlerNoFlag(mu, ctx) ==
  LET src == mu.el.url
      el2 == IF src.set /\ ~isLikelyHttpURL(src)
             THEN [mu.el EXCEPT !.url = cleanPath(src)] ELSE mu.el
  IN  IF mu.el.type = "module" /\ ~mu.st.nomoduleInserted
      THEN [mu EXCEPT !.el = el2, !.after = <<Token("nomodule", "")>> \o @]
      ELSE [mu EXCEPT !.el = el2]

ScriptHandler(mu, ctx) ==
  LET src == mu.el.url
      el2 == IF src.set /\ ~isLikelyHttpURL(src)
             THEN [mu.el EXCEPT !.url = cleanPath(src)] ELSE mu.el
  IN  IF mu.el.type = "module" /\ ~mu.st.nomoduleInserted
      THEN [mu EXCEPT !.el = el2, !.after = <<Token("nomodule", "")>> \o @,
                      !.st = [@ EXCEPT !.nomoduleInserted = TRUE]]
      ELSE [mu EXCEPT !.el = el2]

\* lines 189-214: commonHandler, bound to head and to body
CommonHandler(mu, ctx) ==
  LET manifest == IF Len(ctx.routes) > 0
                  THEN <<Token("route-manifest", ctx.routes)>> ELSE <<>>
      dev == IF ctx.isDev
             THEN (IF ctx.hmrWebSocketUrl # ""
                   THEN <<Token("hmr-websocket-url", ctx.hmrWebSocketUrl)>> ELSE <<>>)
                  \o <<Token("hmr-index-html", "")>>
             ELSE <<>>
  IN  IF mu.st.handled THEN mu
      ELSE [mu EXCEPT !.append = @ \o manifest \o dev,
                      !.st = [@ EXCEPT !.handled = IF ctx.isDev THEN TRUE ELSE @]]

\* rewriter.on(selector, handlers) of lines 83-135 and 216-220: the handlers
\* an element meets, in registration order
Visit(el, st, ctx) ==
  LET m0 == Mutations(el, st)
      m1 == IF el.tag = "ssr-head" /\ ctx.mode = "ok" THEN SsrHeadHandler(m0, ctx)
            ELSE IF el.tag = "ssr-head" /\ ctx.mode = "error" THEN SsrHeadRemoveOnly(m0, ctx)
            ELSE m0
      m2 == IF el.tag = "ssr-body" /\ ctx.mode # "none" THEN SsrBodyHandler(m1, ctx) ELSE m1
      m3 == IF el.tag \in ctx.customHTMLRewriter THEN CustomHandler(m2, ctx) ELSE m2
      m4 == IF el.tag = "link" THEN LinkHandler(m3, ctx) ELSE m3
      m5 == IF el.tag = "script" THEN ScriptHandler(m4, ctx) ELSE m4
      m6 == IF el.tag = "head" THEN CommonHandler(m5, ctx) ELSE m5
  IN  IF el.tag = "body" THEN CommonHandler(m6, ctx) ELSE m6

\* Op applied to the value of e, with e evaluated once
Bind(e, Op(_)) == CHOOSE y \in {Op(x) : x \in {e}} : TRUE

\* rewriter.write(indexHtml); rewriter.end(): one pass in document order.
\* acc is the output written and the handlers' state so far.  An element's
\* handlers run at its start tag; content appended to it is written before
\* its end tag; a removed or replaced element is written with none of its
\* content.
RECURSIVE RewriteSeq(_, _, _)
RewriteEl(el, acc, ctx) ==
  Bind(acc, LAMBDA a :
    Bind(Visit(el, a.st, ctx), LAMBDA mu :
      IF mu.removed
      THEN [out |-> a.out \o mu.before \o mu.after, st |-> mu.st]
      ELSE IF mu.replaced
      THEN [out |-> a.out \o mu.before \o mu.replacement \o mu.after, st |-> mu.st]
      ELSE Bind(RewriteSeq(mu.el.children,
                           [out |-> a.out \o mu.before \o <<OpenTag(mu.el)>>, st |-> mu.st],
                           ctx),
                LAMBDA inner :
                  [out |-> inner.out \o mu.append \o <<CloseTag(mu.el)>> \o mu.after,
                   st |-> inner.st])))

RewriteSeq(els, acc, ctx) ==
  IF els = <<>> THEN acc
  ELSE RewriteSeq(Tail(els), RewriteEl(els[1], acc, ctx), ctx)

\* lines 176-178 and 189-191: the handler objects a call of fetch creates
NewHandlers == [nomoduleInserted |-> FALSE, handled |-> FALSE]

(***************************************************************************)
(* Templates drawn for indexHtml.                                          *)
(***************************************************************************)
Leaf(tag) == Element(tag, NoUrl, "", <<>>)
ModuleScript == Element("script", PathUrl(<<".", "main.tsx">>), "module", <<>>)
PlainScript  == Element("script", HttpUrl(<<"cdn", "lib.js">>), "", <<>>)
CssLink      == Element("link", PathUrl(<<".", "style", "app.css">>), "", <<>>)
IconLink     == Element("link", HttpUrl(<<"cdn", "icon.png">>), "", <<>>)

\* <head><link><ssr-head><script type=module></head><body><ssr-body><script type=module></body>
StdTemplate ==
  << Element("head", NoUrl, "", <<CssLink, Leaf("ssr-head"), ModuleScript>>),
     Element("body", NoUrl, "", <<Leaf("ssr-body"), ModuleScript>>) >>

Templates ==
  { StdTemplate,
    \* no head element
    << Element("body", NoUrl, "", <<Leaf("ssr-head"), Leaf("ssr-body"), PlainScript, ModuleScript>>) >>,
    \* no body element, no markers
    << Element("head", NoUrl, "", <<IconLink, PlainScript>>) >>,
    \* markers outside head and body
    << Leaf("ssr-head"), Leaf("ssr-body"), ModuleScript, ModuleScript, CssLink >>,
    \* an empty document
    << >> }

(***************************************************************************)
(* State.                                                                  *)
(***************************************************************************)
VARIABLES
  lolHtmlReady,       \* line 14: the module-level readiness flag
  initWasmCalls,      \* how many times initWasm has been called (line 28)
  routes,             \* options.routes
  isDev,              \* options.isDev
  hmrWebSocketUrl,    \* options.hmrWebSocketUrl ("" when undefined)
  indexHtml,          \* options.indexHtml
  ssrHandler,         \* whether options.ssrHandler is given
  customHTMLRewriter, \* the selectors of options.customHTMLRewriter
  imports,            \* what route[1]() yields, by meta.filename
  env,                \* what the collaborators of fetch may do (see Env)
  call                \* the calls of fetch: their locals and where they are

vars == << lolHtmlReady, initWasmCalls, routes, isDev, hmrWebSocketUrl, indexHtml,
           ssrHandler, customHTMLRewriter, imports, env, call >>

options == << routes, isDev, hmrWebSocketUrl, indexHtml, ssrHandler,
              customHTMLRewriter, imports, env >>

\* the behaviours of the collaborators: how the render callback may end and
\* what it may push onto headCollection, the mtime values lstat may report
\* (0: none) and whether it may fail, whether globalThis.serverDependencyGraph
\* may be defined, whether reading and bundling the style modules may succeed
Env(renderKinds, heads, mtimes, lstatOk, graphDefined, stylesOk) ==
  [renderKinds |-> renderKinds, heads |-> heads, mtimes |-> mtimes,
   lstatOk |-> lstatOk, graphDefined |-> graphDefined, stylesOk |-> stylesOk]

Requests == 1..MaxReq

NoResponse == [set |-> FALSE, status |-> 0, headers |-> <<>>, body |-> <<>>]
Response(body, status, headers) ==
  [set |-> TRUE, status |-> status, headers |-> headers, body |-> body]

\* the locals of a call of fetch at its entry (lines 26, 33-39)
NewCall(pc, pathname, ifModifiedSince) ==
  [pc |-> pc,
   pathname |-> pathname,              \* new URL(req.url).pathname
   ifModifiedSince |-> ifModifiedSince, \* req.headers.get("If-Modified-Since"), 0: none
   matches |-> <<>>,
   loads |-> <<>>,
   results |-> <<>>,
   modules |-> <<>>,
   rendered |-> 0,                     \* calls of ssrHandler
   headCollection |-> <<>>,
   ssrOutput |-> "",
   error |-> "",
   mode |-> "none",                    \* which ssr-head / ssr-body handlers are bound
   ssr |-> FALSE,
   headers |-> <<ContentType>>,
   stat |-> -1,                        \* stat.mtime in ms; 0: none, -1: no lstat yet
   handlers |-> NewHandlers,
   chunks |-> <<>>,
   response |-> NoResponse]

Set(r, frame) == call' = [call EXCEPT ![r] = frame]

(***************************************************************************)
(* fetch, one action per run between two suspension points.                *)
(***************************************************************************)
\* lines 27-28: the readiness check; initWasm is called when the flag is unset
Begin(r) ==
  /\ call[r].pc = "start"
  /\ IF ~lolHtmlReady
     THEN /\ initWasmCalls' = initWasmCalls + 1
          /\ Set(r, [call[r] EXCEPT !.pc = "initWasm"])
     ELSE /\ Set(r, [call[r] EXCEPT !.pc = "ready"])
          /\ UNCHANGED initWasmCalls
  /\ UNCHANGED << lolHtmlReady, options >>

\* line 29: the continuation of `await initWasm(...)'
InitWasmDone(r) ==
  /\ call[r].pc = "initWasm"
  /\ lolHtmlReady' = TRUE
  /\ Set(r, [call[r] EXCEPT !.pc = "ready"])
  /\ UNCHANGED << initWasmCalls, options >>

\* lines 32-41 and 229-277: without a render callback the static path; with
\* one, initSSR matches the routes and starts every load (imp() is called
\* for each match before the first load resumes)
StartSSR(r) ==
  /\ call[r].pc = "ready"
  /\ IF ~ssrHandler
     THEN Set(r, [call[r] EXCEPT !.pc = "lstat"])
     ELSE LET matches == MatchRoutes(routes, call[r].pathname)
          IN  IF Len(matches) > 0
              THEN Set(r, [call[r] EXCEPT
                             !.pc = "loading",
                             !.matches = matches,
                             !.loads = [i \in 1..Len(matches) |->
                                          Load("import", PendingResult.ssrModule)],
                             !.results = [i \in 1..Len(matches) |-> PendingResult]])
              ELSE Set(r, [call[r] EXCEPT !.pc = "loaded"])
  /\ UNCHANGED << lolHtmlReady, initWasmCalls, options >>

\* a load has run up to its next suspension point, or to its end
Resume(r, i, load) ==
  /\ Set(r, [call[r] EXCEPT
               !.loads[i] = load,
               !.results = IF load.pc = "done"
                           THEN StoreResult(@, i, load.ssrModule) ELSE @])
  /\ UNCHANGED << lolHtmlReady, initWasmCalls, options >>

\* lines 277-291: `await imp()' of load i resumes
Import(r, i) ==
  /\ call[r].pc = "loading"
  /\ call[r].loads[i].pc = "import"
  /\ Resume(r, i, AfterImport(call[r].matches[i],
                              imports[call[r].matches[i].route.filename]))

\* lines 289-292: `await res' of load i resumes
FetchDone(r, i) ==
  /\ call[r].pc = "loading"
  /\ call[r].loads[i].pc = "fetch"
  /\ Resume(r, i, AfterFetch(call[r].loads[i].ssrModule,
                             imports[call[r].matches[i].route.filename]))

\* lines 294-295, 306-309: `await res.text()' / `await res.json()' resumes
BodyDone(r, i) ==
  /\ call[r].pc = "loading"
  /\ call[r].loads[i].pc \in {"text", "json"}
  /\ Resume(r, i, AfterBody(call[r].loads[i],
                            imports[call[r].matches[i].route.filename]))

\* lines 276, 41: Promise.all rejects as soon as one load rejects; the
\* failure leaves initSSR and fetch (line 41 is outside the try)
LoadsRejected(r) ==
  /\ call[r].pc = "loading"
  /\ \E i \in 1..Len(call[r].loads) : call[r].loads[i].pc = "rejected"
  /\ Set(r, [call[r] EXCEPT !.pc = "thrown"])
  /\ UNCHANGED << lolHtmlReady, initWasmCalls, options >>

\* lines 276, 314: Promise.all resolves when every load has returned
LoadsDone(r) ==
  /\ call[r].pc = "loading"
  /\ \A i \in 1..Len(call[r].results) : call[r].results[i].set
  /\ Set(r, [call[r] EXCEPT !.pc = "loaded",
                            !.modules = SurvivingModules(call[r].results)])
  /\ UNCHANGED << lolHtmlReady, initWasmCalls, options >>

\* for (const { redirect } of modules) if (redirect) ...: the first module
\* with a redirect, 0 when there is none
\* (the mutant: the last module with a redirect)
LastRedirect(modules) ==
  IF \E i \in 1..Len(modules) : modules[i].redirect.set
  THEN CHOOSE i \in 1..Len(modules) :
         modules[i].redirect.set /\ \A j \in (i + 1)..Len(modules) : ~modules[j].redirect.set
  ELSE 0

\* (the mutant: a module with a data error ends the request as well)
FirstRedirectOrError(modules) ==
  IF \E i \in 1..Len(modules) : modules[i].redirect.set \/ modules[i].error.set
  THEN CHOOSE i \in 1..Len(modules) :
         /\ modules[i].redirect.set \/ modules[i].error.set
         /\ \A j \in 1..(i - 1) : ~(modules[j].redirect.set \/ modules[j].error.set)
  ELSE 0

FirstRedirect(modules) ==
  IF \E i \in 1..Len(modules) : modules[i].redirect.set
  THEN CHOOSE i \in 1..Len(modules) :
         modules[i].redirect.set /\ \A j \in 1..(i - 1) : ~modules[j].redirect.set
  ELSE 0

\* new Response(null, redirect)
RedirectResponse(redirect) ==
  Response(<<>>, redirect.status,
           IF redirect.location THEN <<Header("Location", HeaderValue("/login", 0, ""))>>
           ELSE <<>>)

\* lines 42-50: the redirect short-circuit, else the render callback is called
AfterInitSSR(r) ==
  /\ call[r].pc = "loaded"
  /\ LET k == FirstRedirect(call[r].modules)
     IN  IF k # 0
         THEN Set(r, [call[r] EXCEPT
                        !.pc = "done",
                        !.response = RedirectResponse(call[r].modules[k].redirect)])
         ELSE Set(r, [call[r] EXCEPT !.pc = "rendering", !.rendered = @ + 1])
  /\ UNCHANGED << lolHtmlReady, initWasmCalls, options >>

\* what the render callback pushes onto headCollection
HeadFragments ==
  { <<>>,
    <<Fragment("html", "<title>")>>,
    <<Fragment("html", ""), Fragment("html", "<meta>")>> }

\* lines 83-123: the handlers of a successful render and its cache header
\* (the mutant: the flag ssr is left unset, so that the static path follows)
SsrOkFlagUnset(frame) ==
  [frame EXCEPT !.pc = "lstat", !.mode = "ok",
                !.headers = Append(@, CacheControl(frame.modules))]

SsrOk(frame) ==
  [frame EXCEPT !.pc = "rewrite", !.mode = "ok", !.ssr = TRUE,
                !.headers = Append(@, CacheControl(frame.modules))]

\* lines 125-138: the handlers of a failed render and its cache header
\* (the mutant: the cache header of the modules' TTLs)
SsrFailedTtl(frame, error) ==
  [frame EXCEPT !.pc = "rewrite", !.mode = "error", !.ssr = TRUE, !.error = error,
                !.headers = Append(@, CacheControl(frame.modules))]

SsrFailed(frame, error) ==
  [frame EXCEPT !.pc = "rewrite", !.mode = "error", !.ssr = TRUE, !.error = error,
                !.headers = Append(@, NoCache)]

\* lines 50-56, 125: `await ssrHandler(...)' resumes, with a string, with
\* another value, or with a failure
RenderDone(r) ==
  /\ call[r].pc = "rendering"
  /\ \E head \in env.heads, kind \in env.renderKinds :
       LET frame == [call[r] EXCEPT !.headCollection = head]
       IN  CASE kind = "throws" -> Set(r, SsrFailed(frame, "render stack"))
             [] kind = "undefined" -> Set(r, [frame EXCEPT !.pc = "lstat"])
             [] kind = "string" ->
                  IF Len(frame.modules) > 0
                  THEN Set(r, [frame EXCEPT !.pc = "styles", !.ssrOutput = "<main>"])
                  ELSE Set(r, SsrOk([frame EXCEPT !.ssrOutput = "<main>"]))
  /\ UNCHANGED << lolHtmlReady, initWasmCalls, options >>

\* lines 57-81, 125: `await Promise.all(styleModules.map(...))' resumes: the
\* style tags are pushed, or reading or bundling a style module has failed
StylesDone(r) ==
  /\ call[r].pc = "styles"
  /\ \E graphDefined \in env.graphDefined, ok \in env.stylesOk \cup {TRUE} :
       /\ ~ok => StyleModules(call[r].modules, graphDefined) # <<>>
       /\ IF ok
          THEN Set(r, SsrOk([call[r] EXCEPT
                               !.headCollection = @ \o Styles(call[r].modules, graphDefined)]))
          ELSE Set(r, SsrFailed(call[r], "style stack"))
  /\ UNCHANGED << lolHtmlReady, initWasmCalls, options >>

\* stat.mtime of ./index.html, in milliseconds; 0: no mtime
Mtimes == {0, 1000, 1500, 2000}

\* lines 143-145: stat.mtime is there and its UTC text is the request's
\* If-Modified-Since header
\* (the mutant: the times are compared to the millisecond)
NotModifiedToTheMs(ifModifiedSince, mtime) ==
  mtime # 0 /\ ifModifiedSince * MsPerSecond = mtime

NotModified(ifModifiedSince, mtime) ==
  mtime # 0 /\ ifModifiedSince = toUTCString(mtime)

\* lines 141-151: `await Deno.lstat(...)' resumes (or fails: the failure
\* leaves fetch)
Lstat(r) ==
  /\ call[r].pc = "lstat"
  /\ \/ /\ FALSE \in env.lstatOk
        /\ Set(r, [call[r] EXCEPT !.pc = "thrown"])
     \/ \E mtime \in env.mtimes :
          LET mtimeUTC == toUTCString(mtime)
          IN  IF NotModified(call[r].ifModifiedSince, mtime)
              THEN Set(r, [call[r] EXCEPT !.pc = "done", !.stat = mtime,
                                          !.response = Response(<<>>, 304, <<>>)])
              ELSE Set(r, [call[r] EXCEPT
                             !.pc = "rewrite", !.stat = mtime,
                             !.headers = (IF mtime # 0 THEN Append(@, LastModified(mtimeUTC))
                                          ELSE @) \o <<NoCache>>])
  /\ UNCHANGED << lolHtmlReady, initWasmCalls, options >>

\* the handler objects the rewriter of call r uses: its own (lines 176, 189)
\* (the mutant: one module-level pair of handler objects, that of call 1)
SharedHandlers(calls, r) == calls[1].handlers

HandlersOf(calls, r) == calls[r].handlers

\* what the handlers close over
Context(frame) ==
  [mode |-> frame.mode, headCollection |-> frame.headCollection,
   modules |-> frame.modules, ssrOutput |-> frame.ssrOutput, error |-> frame.error,
   isDev |-> isDev, hmrWebSocketUrl |-> hmrWebSocketUrl, routes |-> routes,
   customHTMLRewriter |-> customHTMLRewriter]

\* lines 153-224: the handlers are created and bound, the template is
\* rewritten in one pass, the response is built
Rewrite(r) ==
  /\ call[r].pc = "rewrite"
  /\ LET created == [call EXCEPT ![r].handlers = NewHandlers]
         result  == RewriteSeq(indexHtml,
                               [out |-> <<>>, st |-> HandlersOf(created, r)],
                               Context(call[r]))
     IN  Set(r, [call[r] EXCEPT
                   !.pc = "done",
                   !.handlers = result.st,
                   !.chunks = result.out,
                   !.response = Response(result.out, 200, call[r].headers)])
  /\ UNCHANGED << lolHtmlReady, initWasmCalls, options >>

(***************************************************************************)
(* The specification of fetch: up to MaxReq calls in flight.               *)
(***************************************************************************)
Filenames == {route.filename : route \in RouteCatalogue}

RenderKinds == {"string", "undefined", "throws"}

\* every behaviour of the collaborators
AnyEnv == Env(RenderKinds, HeadFragments, Mtimes, BOOLEAN, BOOLEAN, BOOLEAN)

\* the modules of the routes a request matches are drawn from kinds; the
\* routes it does not match are never imported
Registries(table, pathname, kinds) ==
  LET matches == MatchRoutes(table, pathname)
      matched == {matches[i].route.filename : i \in 1..Len(matches)}
  IN  {[f \in Filenames |-> IF f \in matched THEN reg[f] ELSE PlainModule] :
         reg \in [matched -> kinds]}

Unused == NewCall("unused", <<>>, 0)

BlogTable == <<RouteApp, RouteBlog, RouteBlogPost, Route404>>

\* kinds of modules whose loads take one, two and three steps
LoadKinds ==
  { PlainModule,
    ModuleKind(TRUE, TRUE,  TtlNumber(30), "async", Res(200, FALSE, TRUE)),
    ModuleKind(TRUE, TRUE,  TtlUndefined,  "sync",  Res(301, TRUE,  TRUE)),
    ModuleKind(TRUE, FALSE, TtlUndefined,  "async", Res(302, TRUE,  TRUE)),
    ModuleKind(TRUE, TRUE,  TtlUndefined,  "async", ResThrows) }

\* one call of fetch, wide in what the route modules do: three matches
\* ("/blog/hello": _app, blog, blog/:slug) of a few kinds, or two matches
\* ("/nope": _app, _404) of every kind
InitLoading ==
  /\ routes = BlogTable
  /\ \E pathname \in {<<"blog", "hello">>, <<"nope">>} :
       /\ imports \in Registries(routes, pathname,
                                 IF pathname = <<"nope">> THEN ModuleKinds ELSE LoadKinds)
       /\ call = [r \in Requests |->
                    IF r = 1 THEN NewCall("start", pathname, 0) ELSE Unused]
  /\ isDev = FALSE
  /\ hmrWebSocketUrl = ""
  /\ indexHtml = StdTemplate
  /\ ssrHandler = TRUE
  /\ customHTMLRewriter = {}
  /\ env = AnyEnv

\* one call of fetch, wide in the options and the request
InitOptions ==
  /\ routes \in {<<>>, <<RouteIndex>>, <<RouteBlog, RouteBlogIdx>>}
  /\ imports = [f \in Filenames |-> PlainModule]
  /\ \E pathname \in {<<"">>, <<"blog">>}, ifModifiedSince \in {0, 1} :
       call = [r \in Requests |->
                 IF r = 1 THEN NewCall("start", pathname, ifModifiedSince) ELSE Unused]
  /\ isDev \in BOOLEAN
  /\ hmrWebSocketUrl \in {"", "ws://localhost/hmr"}
  /\ indexHtml \in Templates
  /\ ssrHandler \in BOOLEAN
  /\ customHTMLRewriter \in {{}, {"link", "ssr-head"}}
  /\ env = AnyEnv

\* several calls of fetch for the same request, interleaved; the
\* collaborators behave the same way for each of them
InitConcurrent ==
  /\ routes = <<RouteIndex>>
  /\ imports \in Registries(routes, <<"">>,
                            {ModuleKind(TRUE, TRUE, TtlNumber(30), "async", Res(200, FALSE, TRUE))})
  /\ \E n \in 2..MaxReq :
       call = [r \in Requests |->
                 IF r <= n THEN NewCall("start", <<"">>, 1) ELSE Unused]
  /\ isDev \in BOOLEAN
  /\ hmrWebSocketUrl = ""
  /\ indexHtml = StdTemplate
  /\ ssrHandler \in BOOLEAN
  /\ customHTMLRewriter = {}
  /\ \E kind \in RenderKinds, mtime \in {1000, 2000} :
       env = Env({kind}, {<<Fragment("html", "<title>")>>}, {mtime}, {TRUE}, {TRUE}, {TRUE})

Init ==
  /\ lolHtmlReady = FALSE
  /\ initWasmCalls = 0
  /\ \/ InitLoading
     \/ InitOptions
     \/ InitConcurrent

Next ==
  \E r \in Requests :
    \/ Begin(r)
    \/ InitWasmDone(r)
    \/ StartSSR(r)
    \/ \E i \in 1..Len(call[r].loads) : Import(r, i)
    \/ \E i \in 1..Len(call[r].loads) : FetchDone(r, i)
    \/ \E i \in 1..Len(call[r].loads) : BodyDone(r, i)
    \/ LoadsRejected(r)
    \/ LoadsDone(r)
    \/ AfterInitSSR(r)
    \/ RenderDone(r)
    \/ StylesDone(r)
    \/ Lstat(r)
    \/ Rewrite(r)

Spec == Init /\ [][Next]_vars

(***************************************************************************)
(* The specification of route matching: initSSR's match list as a function *)
(* of the route table and the request path, over every table of up to      *)
(* MaxRoutes distinct routes of the catalogue.                             *)
(***************************************************************************)
InitMatch ==
  /\ lolHtmlReady = TRUE
  /\ initWasmCalls = 1
  /\ routes \in DistinctSeqs(RouteCatalogue, MaxRoutes)
  /\ imports = [f \in Filenames |-> PlainModule]
  /\ \E pathname \in RequestPaths :
       call = [r \in Requests |->
                 IF r = 1 THEN NewCall("ready", pathname, 0) ELSE Unused]
  /\ isDev = FALSE
  /\ hmrWebSocketUrl = ""
  /\ indexHtml = StdTemplate
  /\ ssrHandler = TRUE
  /\ customHTMLRewriter = {}
  /\ env = AnyEnv

NextMatch == \E r \in Requests : StartSSR(r)

SpecMatch == InitMatch /\ [][NextMatch]_vars

(***************************************************************************)
(* The specification of rendering: fetch from the return of initSSR on, as *)
(* a function of the module list, the options and what the collaborators   *)
(* do.  The module lists are those initSSR can return: each module is what *)
(* a load of a route leaves when it runs to its end.                       *)
(***************************************************************************)
\* the SSRModule a load of `match' leaves for a module of kind `mod' (a load
\* that does not reject)
Loaded(match, mod) ==
  LET a == AfterImport(match, mod)
      b == IF a.pc = "fetch" THEN AfterFetch(a.ssrModule, mod) ELSE a
      c == IF b.pc \in {"text", "json"} THEN AfterBody(b, mod) ELSE b
  IN  c.ssrModule

\* kinds of surviving modules: every cacheTtl, data, data errors, a redirect
RenderedKinds ==
  {PlainModule} \cup TtlModuleKinds \cup
  { ModuleKind(TRUE, TRUE, TtlNumber(30), "async", Res(200, FALSE, TRUE)),
    ModuleKind(TRUE, TRUE, TtlNumber(10), "async", Res(404, FALSE, TRUE)),
    ModuleKind(TRUE, TRUE, TtlNumber(20), "sync",  Res(200, FALSE, FALSE)),
    ModuleKind(TRUE, TRUE, TtlNumber(60), "sync",  Res(302, TRUE,  TRUE)) }

\* the routes of the modules of a list, by position
ModuleRoutes == <<RouteApp, RouteBlog, RouteBlogPost, RouteIndex, RouteSlug>>

ModuleLists(kinds, n) ==
  { [i \in 1..m |-> Loaded(RouteMatch(ModuleRoutes[i].pathname, ModuleRoutes[i], FALSE),
                           ks[i])] :
      m \in {m \in 0..n : TRUE}, ks \in [1..n -> kinds] }

Loaded1(pathname) == NewCall("loaded", pathname, 0)

\* wide in the module list
InitModules ==
  /\ routes = BlogTable
  /\ \E modules \in ModuleLists(RenderedKinds, MaxModules) :
       call = [r \in Requests |->
                 IF r = 1 THEN [Loaded1(<<"blog", "hello">>) EXCEPT !.modules = modules]
                 ELSE Unused]
  /\ isDev = TRUE
  /\ hmrWebSocketUrl = ""
  /\ indexHtml = StdTemplate
  /\ customHTMLRewriter = {}
  /\ env = Env(RenderKinds, {<<Fragment("html", "<title>")>>}, {1000}, {TRUE}, {TRUE}, BOOLEAN)

\* wide in the template and the options
InitTemplates ==
  /\ routes \in {<<>>, BlogTable}
  /\ \E modules \in ModuleLists({PlainModule}, 2) :
       call = [r \in Requests |->
                 IF r = 1 THEN [Loaded1(<<"blog", "hello">>) EXCEPT !.modules = modules]
                 ELSE Unused]
  /\ isDev \in BOOLEAN
  /\ hmrWebSocketUrl \in {"", "ws://localhost/hmr"}
  /\ indexHtml \in Templates
  /\ customHTMLRewriter \in {{}, {"link", "ssr-head"}}
  /\ env = AnyEnv

InitRender ==
  /\ lolHtmlReady = TRUE
  /\ initWasmCalls = 1
  /\ imports = [f \in Filenames |-> PlainModule]
  /\ ssrHandler = TRUE
  /\ \/ InitModules
     \/ InitTemplates

NextRender ==
  \E r \in Requests :
    \/ AfterInitSSR(r)
    \/ RenderDone(r)
    \/ StylesDone(r)
    \/ Lstat(r)
    \/ Rewrite(r)

SpecRender == InitRender /\ [][NextRender]_vars

(***************************************************************************)
(* Properties.                                                             *)
(***************************************************************************)
Active == {r \in Requests : call[r].pc # "unused"}

\* initSSR has returned to fetch
AfterLoading(r) ==
  call[r].pc \in {"loaded", "rendering", "styles", "lstat", "rewrite", "done"}

ModuleOf(r, i) == imports[call[r].matches[i].route.filename]

\* the data fetch of match i returns a 3xx response with a Location header
RedirectFetch(r, i) ==
  LET mod == ModuleOf(r, i)
  IN  /\ mod.importOk /\ mod.get # "none" /\ mod.res.kind = "response"
      /\ mod.res.status >= 300 /\ mod.res.status < 400 /\ mod.res.location

RedirectingMatches(r) == {i \in 1..Len(call[r].matches) : RedirectFetch(r, i)}

SurvivingRedirects(r) == {i \in RedirectingMatches(r) : ModuleOf(r, i).hasDefault}

Min(S) == CHOOSE x \in S : \A y \in S : x <= y

NothingRendered(r) ==
  /\ call[r].rendered = 0
  /\ call[r].chunks = <<>>
  /\ call[r].mode = "none"
  /\ call[r].headers = <<ContentType>>

\* C1 as stated: with a render callback, when the data fetch of any matched
\* route's module returns a 3xx response with a Location header, fetch ends
\* with the empty-body redirect response, the render callback is never called
\* and nothing is rewritten nor any cache header computed (a call that ends
\* with a failure of another load is not counted against the claim here).
C1_AnyRedirectReturns ==
  \A r \in Active :
    (call[r].matches # <<>> /\ RedirectingMatches(r) # {}) =>
      /\ call[r].pc \in {"loading", "loaded", "done", "thrown"}
      /\ NothingRendered(r)
      /\ call[r].pc = "done" =>
           /\ call[r].response.body = <<>>
           /\ \E i \in RedirectingMatches(r) :
                call[r].response.status = ModuleOf(r, i).res.status

\* C1 amended: when data loading completes and a module with a default export
\* got a 3xx response with a Location header from its data fetch, fetch ends
\* with an empty body and the status and Location of the first such module in
\* match order; the render callback is never called, nothing is rewritten and
\* no cache header is computed.
C1_SurvivingRedirectReturns ==
  \A r \in Active :
    (AfterLoading(r) /\ SurvivingRedirects(r) # {}) =>
      /\ call[r].pc \in {"loaded", "done"}
      /\ NothingRendered(r)
      /\ call[r].pc = "done" =>
           /\ call[r].response.set
           /\ call[r].response.body = <<>>
           /\ call[r].response.status = ModuleOf(r, Min(SurvivingRedirects(r))).res.status
           /\ \E h \in Range(call[r].response.headers) : h.name = "Location"

\* C1 witness: a redirect was returned although two modules redirect with
\* different statuses
C1_Witness ==
  \E r \in Active :
    /\ call[r].pc = "done"
    /\ \E i, j \in SurvivingRedirects(r) :
         ModuleOf(r, i).res.status # ModuleOf(r, j).res.status

HasRoute(pathname) == \E k \in 1..Len(routes) : routes[k].pathname = pathname

\* C2 as stated: when the table has a root-layout route and the match list is
\* not empty, its first element is the root-layout route.
C2_RootLayoutFirst ==
  \A r \in Active :
    (HasRoute(APP_PATHNAME) /\ call[r].matches # <<>>) =>
      call[r].matches[1].route.pathname = APP_PATHNAME

\* the synthetic not-found entries of a match list
SyntheticNotFound(matches) ==
  {i \in 1..Len(matches) :
     matches[i].static /\ matches[i].route.pathname = NOTFOUND_PATHNAME}

\* the table scan recorded a leaf route
LeafRecorded(matches) ==
  \E i \in 1..Len(matches) : ~matches[i].static /\ ~matches[i].route.nesting

\* C3: when the table has a not-found route, the match list holds exactly one
\* synthetic not-found entry if the scan recorded no leaf route, and none if it
\* recorded one.
C3_NotFoundOnce ==
  \A r \in Active :
    (call[r].pc \in {"loading", "loaded"} /\ HasRoute(NOTFOUND_PATHNAME)) =>
      Cardinality(SyntheticNotFound(call[r].matches)) =
        IF LeafRecorded(call[r].matches) THEN 0 ELSE 1

\* C3 witness: the scan recorded a nesting route only, and the fallback is there
C3_Witness ==
  \E r \in Active :
    /\ call[r].pc = "loading"
    /\ \E i \in 1..Len(call[r].matches) :
         ~call[r].matches[i].static /\ call[r].matches[i].route.nesting
    /\ ~LeafRecorded(call[r].matches)
    /\ Cardinality(SyntheticNotFound(call[r].matches)) = 1

CacheControls(headers) == SelectSeq(headers, LAMBDA h : h.name = "Cache-Control")

Tokens(body, k) == {i \in 1..Len(body) : body[i].k = k}

\* the elements with a tag in a forest
RECURSIVE CountTag(_, _)
CountTag(els, tag) ==
  IF els = <<>> THEN 0
  ELSE (IF els[1].tag = tag THEN 1 ELSE 0)
       + CountTag(els[1].children, tag) + CountTag(Tail(els), tag)

\* C4: when the render callback raised a failure, the response has status 200,
\* every body marker is replaced by the fallback body (the failure's trace)
\* and Cache-Control is exactly "public, max-age=0, must-revalidate".
C4_RenderFailure ==
  \A r \in Active :
    (call[r].pc = "done" /\ call[r].error = "render stack") =>
      /\ call[r].response.status = 200
      /\ CacheControls(call[r].response.headers) = <<NoCache>>
      /\ \A i \in Tokens(call[r].response.body, "open") :
           call[r].response.body[i].v.tag # "ssr-body"
      /\ Cardinality(Tokens(call[r].response.body, "error-stack"))
           = CountTag(indexHtml, "ssr-body")
      /\ \A i \in Tokens(call[r].response.body, "error-stack") :
           call[r].response.body[i].v = "render stack"
      /\ Tokens(call[r].response.body, "ssr-output") = {}

\* C4 witness: a failed render of modules with positive TTLs, body marker replaced
C4_Witness ==
  \E r \in Active :
    /\ call[r].pc = "done" /\ call[r].error = "render stack"
    /\ Len(Ttls(call[r].modules)) >= 2
    /\ Tokens(call[r].response.body, "error-stack") # {}

PositiveTtls(modules) ==
  {modules[i].dataCacheTtl.n : i \in {j \in 1..Len(modules) :
      /\ modules[j].dataCacheTtl.type = "number"
      /\ ~modules[j].dataCacheTtl.nan
      /\ modules[j].dataCacheTtl.n > 0}}

Permuted(modules) ==
  {[i \in 1..Len(modules) |-> modules[p[i]]] :
     p \in {q \in [1..Len(modules) -> 1..Len(modules)] :
              \A i, j \in 1..Len(modules) : i # j => q[i] # q[j]}}

\* C5: when SSR ran without failure, Cache-Control is max-age of the minimum
\* of the positive numeric dataCacheTtl values of the modules, and
\* "public, max-age=0, must-revalidate" when there is none; every permutation
\* of the module list gives the same header.
C5_MinTtl ==
  \A r \in Active :
    call[r].mode = "ok" =>
      /\ CacheControls(call[r].headers) =
           << IF PositiveTtls(call[r].modules) = {} THEN NoCache
              ELSE MaxAge(Min(PositiveTtls(call[r].modules))) >>
      /\ \A perm \in Permuted(call[r].modules) :
           CacheControl(perm) = CacheControl(call[r].modules)

\* C5 witness: TTLs [30, 10, 20] gave max-age 10
C5_Witness ==
  \E r \in Active :
    /\ call[r].pc = "done" /\ call[r].mode = "ok"
    /\ Ttls(call[r].modules) = <<30, 10, 20>>
    /\ CacheControls(call[r].response.headers) = <<MaxAge(10)>>

\* every SSRModule a call holds: in its loads, its results, its module list
SSRModules(r) ==
  {call[r].loads[i].ssrModule : i \in 1..Len(call[r].loads)}
  \cup {call[r].results[i].ssrModule : i \in 1..Len(call[r].results)}
  \cup Range(call[r].modules)

\* C6: no SSRModule has both redirect and error set, and redirect is set only
\* when the fetch response has a Location header.
C6_RedirectXorError ==
  \A r \in Active :
    /\ \A m \in SSRModules(r) :
         /\ ~(m.redirect.set /\ m.error.set)
         /\ m.redirect.set => m.redirect.location
    /\ \A i \in 1..Len(call[r].loads) :
         call[r].loads[i].ssrModule.redirect.set => ModuleOf(r, i).res.location

\* C6 witness: a 3xx response without Location became an error, another
\* module's 3xx response with Location a redirect
C6_Witness ==
  \E r \in Active :
    \E i, j \in 1..Len(call[r].loads) :
      /\ call[r].loads[i].pc = "done" /\ call[r].loads[j].pc = "done"
      /\ call[r].loads[i].ssrModule.redirect.set
      /\ call[r].loads[j].ssrModule.error.set
      /\ ModuleOf(r, j).res.status = 302 /\ ~ModuleOf(r, j).res.location

\* C7 as stated: the shared head/body handler works once per document, so the
\* output holds at most one route-manifest script.
C7_OneRouteManifest ==
  \A r \in Active :
    call[r].pc = "done" =>
      Cardinality(Tokens(call[r].response.body, "route-manifest")) <= 1

\* the SSRModule list a sequential run of the loads, in match order, leaves
ExpectedModules(r) ==
  SelectSeq([i \in 1..Len(call[r].matches) |->
               Loaded(call[r].matches[i], ModuleOf(r, i))],
            LAMBDA m : m.defaultExport)

\* C8: whatever the completion order of the loads, each result is stored at
\* the index of its match, and the module list is in match order.
C8_MatchOrder ==
  \A r \in Active :
    /\ \A i \in 1..Len(call[r].results) :
         call[r].results[i].set =>
           call[r].results[i].ssrModule = Loaded(call[r].matches[i], ModuleOf(r, i))
    /\ (AfterLoading(r) /\ call[r].matches # <<>>) =>
         call[r].modules = ExpectedModules(r)

\* C8 witness: the third load completed while the first is still suspended
C8_Witness ==
  \E r \in Active :
    /\ call[r].pc = "loading"
    /\ Len(call[r].loads) = 3
    /\ call[r].results[3].set
    /\ call[r].loads[1].pc \in {"fetch", "json"}
    /\ call[r].loads[2].pc = "import"

\* C9 as stated: initWasm is performed at most once, over any number of
\* requests, interleaved or not.
C9_InitWasmOnce == initWasmCalls <= 1

\* what a response is computed from
Inputs(r) ==
  << call[r].pathname, call[r].ifModifiedSince, call[r].modules, call[r].mode,
     call[r].ssrOutput, call[r].error, call[r].headCollection, call[r].stat >>

\* C10: two calls of fetch with the same template, options, request and
\* resolved state give the same response and chunks, interleaved or not.
C10_SameOutput ==
  \A r1, r2 \in Active :
    (call[r1].pc = "done" /\ call[r2].pc = "done" /\ Inputs(r1) = Inputs(r2)) =>
      /\ call[r1].response = call[r2].response
      /\ call[r1].chunks = call[r2].chunks

\* C10 witness: two calls are done, with the fallback script inserted
C10_Witness ==
  \E r1, r2 \in Active :
    /\ r1 # r2
    /\ call[r1].pc = "done" /\ call[r2].pc = "done" /\ Inputs(r1) = Inputs(r2)
    /\ call[r1].response.status = 200
    /\ Tokens(call[r1].chunks, "nomodule") # {}
    /\ call[r1].handlers.nomoduleInserted

\* the data fetch of a module ends in a data error: a response with status
\* >= 400, a 3xx response without Location, or a body that is not JSON
DataError(mod) ==
  /\ mod.importOk /\ mod.get # "none" /\ mod.res.kind = "response"
  /\ \/ mod.res.status >= 400
     \/ mod.res.status >= 300 /\ ~mod.res.location
     \/ mod.res.status < 300 /\ ~mod.res.json

\* C11: the render callback is never called more than once per request; with
\* a render callback, once data loading has completed and no surviving module
\* carries a redirect, it is called exactly once, also when modules carry a
\* data error; a data error is attached to the module whose fetch produced it
\* and to no other, and that module's data stays unset.
C11_RenderOnce ==
  \A r \in Active :
    /\ call[r].rendered <= 1
    /\ ( /\ ssrHandler
         /\ call[r].pc \in {"rendering", "styles", "lstat", "rewrite", "done"}
         /\ \A i \in 1..Len(call[r].modules) : ~call[r].modules[i].redirect.set )
       => call[r].rendered = 1
    /\ \A i \in 1..Len(call[r].results) :
         call[r].results[i].set =>
           /\ call[r].results[i].ssrModule.error.set <=> DataError(ModuleOf(r, i))
           /\ call[r].results[i].ssrModule.error.set =>
                call[r].results[i].ssrModule.data = "undefined"

\* C11 witness: a page was rendered once and rewritten although two of its
\* modules carry different data errors
C11_Witness ==
  \E r \in Active :
    /\ call[r].pc = "done" /\ call[r].rendered = 1 /\ call[r].response.status = 200
    /\ \E i, j \in 1..Len(call[r].modules) :
         /\ call[r].modules[i].error.set /\ call[r].modules[j].error.set
         /\ call[r].modules[i].error.message # call[r].modules[j].error.message

\* fetch took the static path: lstat has resumed
StaticPath(r) == call[r].pc = "done" /\ call[r].stat # -1

\* the markers of the template are in the output as they were, and nothing
\* of a render is
MarkersUntouched(r) ==
  LET body == call[r].response.body
  IN  /\ \A tag \in {"ssr-head", "ssr-body"} :
           Cardinality({i \in Tokens(body, "open") : body[i].v.tag = tag})
             = CountTag(indexHtml, tag)
      /\ \A k \in {"head", "ssr-data", "route-modules", "ssr-output", "error-stack"} :
           Tokens(body, k) = {}

\* when SSR is skipped fetch takes the static path, and a 304 is returned on
\* that path only
SkippedIsStatic(r) ==
  /\ ( /\ call[r].pc \in {"rewrite", "done"} /\ call[r].mode = "none"
       /\ ~ssrHandler \/ call[r].rendered = 1 ) => call[r].stat # -1
  /\ call[r].stat # -1 => ~call[r].ssr /\ call[r].mode = "none"
  /\ call[r].response.status = 304 => call[r].stat # -1 /\ ~call[r].ssr

\* C12 as stated: when SSR is skipped the markers are left untouched and the
\* response is an empty-body 304 when the template's modification time equals
\* the If-Modified-Since header, otherwise a response with Last-Modified
\* attached and Cache-Control "public, max-age=0, must-revalidate"; a 304 is
\* never returned when SSR ran.
C12_StaticLastModified ==
  \A r \in Active :
    /\ SkippedIsStatic(r)
    /\ StaticPath(r) =>
         IF call[r].stat # 0 /\ call[r].ifModifiedSince = toUTCString(call[r].stat)
         THEN call[r].response = Response(<<>>, 304, <<>>)
         ELSE /\ call[r].response.status = 200
              /\ \E i \in 1..Len(call[r].response.headers) :
                   call[r].response.headers[i].name = "Last-Modified"
              /\ CacheControls(call[r].response.headers) = <<NoCache>>
              /\ MarkersUntouched(r)

\* C12 amended: as stated, but Last-Modified is attached only when the
\* template has a modification time.
C12_StaticPath ==
  \A r \in Active :
    /\ SkippedIsStatic(r)
    /\ StaticPath(r) =>
         IF call[r].stat # 0 /\ call[r].ifModifiedSince = toUTCString(call[r].stat)
         THEN call[r].response = Response(<<>>, 304, <<>>)
         ELSE /\ call[r].response.status = 200
              /\ call[r].response.headers =
                   <<ContentType>>
                   \o (IF call[r].stat # 0
                       THEN <<LastModified(toUTCString(call[r].stat))>> ELSE <<>>)
                   \o <<NoCache>>
              /\ MarkersUntouched(r)

\* C12 witness: the render callback returned no text and the template, last
\* modified within the second of If-Modified-Since, was answered with a 304
C12_Witness ==
  \E r \in Active :
    /\ StaticPath(r) /\ call[r].rendered = 1
    /\ call[r].stat = 1500 /\ call[r].ifModifiedSince = 1
    /\ call[r].response.status = 304

\* the script elements of a forest whose type is "module"
RECURSIVE ModuleScripts(_)
ModuleScripts(els) ==
  IF els = <<>> THEN 0
  ELSE (IF els[1].tag = "script" /\ els[1].type = "module" THEN 1 ELSE 0)
       + ModuleScripts(els[1].children) + ModuleScripts(Tail(els))

\* where the start tags of the module-type scripts are in an output
ModuleScriptTags(body) ==
  {i \in Tokens(body, "open") : body[i].v.tag = "script" /\ body[i].v.type = "module"}

\* C13: the no-module fallback script is in the output once when the template
\* has a script element of type "module", right after the first such element,
\* and not at all when it has none.
C13_NomoduleOnce ==
  \A r \in Active :
    (call[r].pc = "done" /\ call[r].response.status = 200) =>
      LET body == call[r].response.body
      IN  /\ Cardinality(Tokens(body, "nomodule"))
               = IF ModuleScripts(indexHtml) > 0 THEN 1 ELSE 0
          /\ ModuleScripts(indexHtml) > 0 =>
               LET first == Min(ModuleScriptTags(body))
               IN  /\ body[first + 1] = Token("close", "script")
                   /\ body[first + 2].k = "nomodule"

\* C13 witness: a document with two module-type scripts got one fallback script
C13_Witness ==
  \E r \in Active :
    /\ call[r].pc = "done" /\ call[r].response.status = 200
    /\ ModuleScripts(indexHtml) = 2
    /\ Cardinality(ModuleScriptTags(call[r].response.body)) = 2
    /\ Cardinality(Tokens(call[r].response.body, "nomodule")) = 1

\* the outcome of a data fetch that returned `res', as the fields data, error
\* and redirect of an SSRModule
Outcome(res) ==
  IF res.kind # "response"
  THEN [data |-> "undefined", error |-> NoError, redirect |-> NoRedirect]
  ELSE IF res.status >= 400
  THEN [data |-> "undefined", error |-> [set |-> TRUE, message |-> "body text",
                                         status |-> res.status],
        redirect |-> NoRedirect]
  ELSE IF res.status >= 300 /\ res.location
  THEN [data |-> "undefined", error |-> NoError,
        redirect |-> [set |-> TRUE, status |-> res.status, location |-> TRUE]]
  ELSE IF res.status >= 300
  THEN [data |-> "undefined",
        error |-> [set |-> TRUE, message |-> "Missing the Location header", status |-> 400],
        redirect |-> NoRedirect]
  ELSE IF res.json
  THEN [data |-> "json", error |-> NoError, redirect |-> NoRedirect]
  ELSE [data |-> "undefined",
        error |-> [set |-> TRUE, message |-> "Data must be valid JSON", status |-> 400],
        redirect |-> NoRedirect]

\* C14: the data, error and redirect of the SSRModule of a completed load are
\* those the table gives for what the module's data fetch returned: status
\* >= 400 an error with the body text and the status; a 3xx status a redirect
\* with the response's status when Location is present, else an error with
\* status 400; any other status the parsed data, or an error with status 400
\* when the body is not JSON; none of the three for a value that is not a
\* response (or when the module has no data fetch).
C14_FetchOutcome ==
  \A r \in Active :
    \A i \in 1..Len(call[r].results) :
      call[r].results[i].set =>
        LET m == call[r].results[i].ssrModule
            mod == ModuleOf(r, i)
        IN  [data |-> m.data, error |-> m.error, redirect |-> m.redirect]
              = Outcome(IF mod.get = "none" THEN NoRes ELSE mod.res)

\* C14 witness: of the loads of one request, one ended with parsed data and
\* one, whose fetch returned a 200 response that is not JSON, with an error
C14_Witness ==
  \E r \in Active :
    \E i, j \in 1..Len(call[r].results) :
      /\ call[r].results[i].set /\ call[r].results[j].set
      /\ call[r].results[i].ssrModule.data = "json"
      /\ ModuleOf(r, j).res.status = 200
      /\ call[r].results[j].ssrModule.error = Error("Data must be valid JSON", 400)

\* the import of the module of match i fails, or its data fetch does
FailingLoad(r, i) ==
  LET mod == ModuleOf(r, i)
  IN  ~mod.importOk \/ (mod.get # "none" /\ mod.res.kind = "throws")

\* C15: when the import or the data fetch of one matched route fails, fetch
\* never gets a module list: the render callback is not called, nothing is
\* rewritten, no response is built, and the call can only end with the
\* failure, whatever the other loads do; once a load has failed, Promise.all
\* cannot resolve.
C15_NoIsolation ==
  \A r \in Active :
    (\E i \in 1..Len(call[r].matches) : FailingLoad(r, i)) =>
      /\ call[r].pc \in {"loading", "thrown"}
      /\ call[r].rendered = 0
      /\ call[r].mode = "none" /\ call[r].chunks = <<>>
      /\ ~call[r].response.set
      /\ call[r].modules = <<>>
      /\ (\E i \in 1..Len(call[r].loads) : call[r].loads[i].pc = "rejected") =>
           \E i \in 1..Len(call[r].results) : ~call[r].results[i].set

\* C15 witness: the call ended with the failure of one load although the
\* other loads had all completed, one of them with a redirect
C15_Witness ==
  \E r \in Active :
    /\ call[r].pc = "thrown"
    /\ Len(call[r].loads) = 3
    /\ Cardinality({i \in 1..3 : call[r].loads[i].pc = "rejected"}) = 1
    /\ Cardinality({i \in 1..3 : call[r].results[i].set}) = 2
    /\ \E i \in 1..3 : call[r].results[i].set /\ call[r].results[i].ssrModule.redirect.set

\* C16: when the render callback raised a failure after it pushed fragments
\* onto the head collection, the output holds none of them, no hydration-data
\* script and no module-bootstrap script, and no head marker: the marker is
\* only removed.
C16_FragmentsDropped ==
  \A r \in Active :
    (call[r].pc = "done" /\ call[r].mode = "error") =>
      LET body == call[r].response.body
      IN  /\ \A k \in {"head", "ssr-data", "route-modules"} : Tokens(body, k) = {}
          /\ \A i \in Tokens(body, "open") : body[i].v.tag # "ssr-head"

\* C16 witness: the render callback pushed a fragment and failed, for a
\* template with a head marker and a non-empty module list
C16_Witness ==
  \E r \in Active :
    /\ call[r].pc = "done" /\ call[r].mode = "error" /\ call[r].error = "render stack"
    /\ \E i \in 1..Len(call[r].headCollection) : isFilledString(call[r].headCollection[i])
    /\ CountTag(indexHtml, "ssr-head") > 0
    /\ call[r].modules # <<>>
    /\ call[r].response.status = 200

\* C17: every module of the list initSSR returns has a default export, and a
\* matched route whose module has none is not in the list; so it is with the
\* modules listed in the hydration-data script and imported by the
\* module-bootstrap script.
C17_DefaultExportOnly ==
  \A r \in Active :
    /\ \A i \in 1..Len(call[r].modules) :
         /\ call[r].modules[i].defaultExport
         /\ imports[call[r].modules[i].filename].hasDefault
    /\ AfterLoading(r) =>
         \A i \in 1..Len(call[r].matches) :
           ~ModuleOf(r, i).hasDefault =>
             \A j \in 1..Len(call[r].modules) :
               call[r].modules[j].filename # call[r].matches[i].route.filename
    /\ call[r].pc = "done" =>
         LET body == call[r].response.body
         IN  /\ \A t \in Tokens(body, "ssr-data") :
                  \A j \in 1..Len(body[t].v) : imports[body[t].v[j].module].hasDefault
             /\ \A t \in Tokens(body, "route-modules") :
                  \A j \in 1..Len(body[t].v) : imports[body[t].v[j]].hasDefault

\* C17 witness: a page was rendered with its scripts in the head although
\* the module of one matched route has no default export
C17_Witness ==
  \E r \in Active :
    /\ call[r].pc = "done" /\ call[r].mode = "ok"
    /\ Tokens(call[r].response.body, "ssr-data") # {}
    /\ Tokens(call[r].response.body, "route-modules") # {}
    /\ \E i \in 1..Len(call[r].matches) : ~ModuleOf(r, i).hasDefault
    /\ Len(call[r].modules) < Len(call[r].matches)

\* what a successful render writes into the head, in output order
HeadInsert(body) ==
  SelectSeq(body, LAMBDA t : t.k \in {"head", "ssr-data", "route-modules"})

\* the non-empty strings of the head collection, as written
HeadStrings(r) ==
  LET filled == SelectSeq(call[r].headCollection, LAMBDA h : h.text # "")
  IN  [i \in 1..Len(filled) |-> [k |-> "head", v |-> filled[i]]]

\* the hydration-data script and the module-bootstrap script of the modules
HeadScripts(r) ==
  << [k |-> "ssr-data",
      v |-> [i \in 1..Len(call[r].modules) |->
               [url |-> call[r].modules[i].url, module |-> call[r].modules[i].filename,
                error |-> call[r].modules[i].error, data |-> call[r].modules[i].data,
                dataCacheTtl |-> call[r].modules[i].dataCacheTtl]]],
     [k |-> "route-modules",
      v |-> [i \in 1..Len(call[r].modules) |-> call[r].modules[i].filename]] >>

\* in the output of call r the head marker is gone and `expected' stands in
\* its place, in one piece; the render callback's fragments come before the
\* style tags
HeadReplacedBy(r, expected) ==
  LET body == call[r].response.body
      hc == call[r].headCollection
  IN  /\ \A i \in Tokens(body, "open") : body[i].v.tag # "ssr-head"
      /\ \A i, j \in 1..Len(hc) : (hc[i].kind = "html" /\ hc[j].kind = "style") => i < j
      /\ CountTag(indexHtml, "ssr-head") = 0 => HeadInsert(body) = <<>>
      /\ CountTag(indexHtml, "ssr-head") = 1 =>
           /\ HeadInsert(body) = expected
           /\ expected # <<>> =>
                \E i \in 1..Len(body) : SubSeq(body, i, i + Len(expected) - 1) = expected

\* C18 as stated: when SSR ran without failure the head marker is replaced
\* by the head-fragment collection (the render callback's fragments, then the
\* style tags), the hydration-data script and the module-bootstrap script, in
\* this order, and is itself removed.
C18_HeadOrderAlways ==
  \A r \in Active :
    (call[r].pc = "done" /\ call[r].mode = "ok") =>
      HeadReplacedBy(r, HeadStrings(r) \o HeadScripts(r))

\* C18 amended: as stated, with the two scripts only when the module list is
\* not empty.
C18_HeadOrder ==
  \A r \in Active :
    (call[r].pc = "done" /\ call[r].mode = "ok") =>
      HeadReplacedBy(r, HeadStrings(r)
                        \o (IF call[r].modules # <<>> THEN HeadScripts(r) ELSE <<>>))

\* C18 witness: a fragment of the render callback, a style tag and the two
\* scripts were written in place of the head marker
C18_Witness ==
  \E r \in Active :
    /\ call[r].pc = "done" /\ call[r].mode = "ok"
    /\ CountTag(indexHtml, "ssr-head") = 1
    /\ \E i \in 1..Len(call[r].response.body) :
         LET body == call[r].response.body
         IN  /\ i + 3 <= Len(body)
             /\ body[i].k = "head" /\ body[i].v.kind = "html"
             /\ body[i + 1].k = "head" /\ body[i + 1].v.kind = "style"
             /\ body[i + 2].k = "ssr-data" /\ body[i + 3].k = "route-modules"

\* "/" + parts.slice(0, j).join("/")
Prefix(parts, j) == IF j = 0 THEN <<"">> ELSE SubSeq(parts, 1, j)

\* the lengths, from lo up, of the proper prefixes of the request path that
\* the pattern of a route accepts
AcceptedPrefixes(route, pathname, lo) ==
  LET parts == SelectSeq(pathname, LAMBDA x : x # "")
  IN  {j \in lo..(Len(parts) - 1) : Exec(route, Prefix(parts, j))}

Max(S) == CHOOSE x \in S : \A y \in S : x >= y

\* the entries of the match list of call r that the ancestor search of the
\* k-th route made: neither the exact match, nor an index sibling, nor synthetic
AncestorEntries(r, k) ==
  {i \in 1..Len(call[r].matches) :
     /\ call[r].matches[i].route = routes[k]
     /\ ~call[r].matches[i].static
     /\ call[r].matches[i].input # call[r].pathname
     /\ call[r].matches[i].input # Append(call[r].pathname, "index")}

\* a nesting route of the table whose exact match fails contributes at most
\* one match, for the longest proper prefix of at least lo segments that its
\* pattern accepts, and none when it accepts none
AncestorIsLongest(r, lo) ==
  \A k \in 1..Len(routes) :
    (routes[k].nesting /\ ~Exec(routes[k], call[r].pathname)) =>
      LET parts == SelectSeq(call[r].pathname, LAMBDA x : x # "")
          accepted == AcceptedPrefixes(routes[k], call[r].pathname, lo)
      IN  /\ Cardinality(AncestorEntries(r, k)) <= 1
          /\ accepted = {} => AncestorEntries(r, k) = {}
          /\ accepted # {} =>
               \E i \in AncestorEntries(r, k) :
                 call[r].matches[i].input = Prefix(parts, Max(accepted))

\* C19 as stated: a nesting route whose exact match fails is tried against
\* the prefixes of the request path, one trailing segment dropped at a time,
\* and contributes at most one match, for the longest proper prefix its
\* pattern accepts.
C19_AncestorAnyPrefix ==
  \A r \in Active :
    call[r].pc \in {"loading", "loaded"} =>
      AncestorIsLongest(r, 0)

\* C19 amended: as stated, for the proper prefixes of at least one segment
\* (the root path "/" is not tried).
C19_AncestorLongest ==
  \A r \in Active :
    call[r].pc \in {"loading", "loaded"} =>
      AncestorIsLongest(r, 1)

\* C19 witness: a nesting route whose pattern accepts two proper prefixes of
\* the request path is in the match list for the longer one
C19_Witness ==
  \E r \in Active :
    /\ call[r].pc = "loading"
    /\ \E k \in 1..Len(routes) :
         /\ routes[k].nesting /\ ~Exec(routes[k], call[r].pathname)
         /\ Cardinality(AcceptedPrefixes(routes[k], call[r].pathname, 1)) = 2
         /\ \E i \in AncestorEntries(r, k) : Len(call[r].matches[i].input) = 2

\* C20: a response built from the rewritten template carries exactly one
\* Cache-Control value, and the three paths that set it exclude each other:
\* the handlers and header of a successful render, those of a failed render,
\* and the header of the static path are never combined on one request.
C20_OneCacheControl ==
  \A r \in Active :
    /\ (call[r].pc = "done" /\ call[r].response.status = 200) =>
         /\ Len(CacheControls(call[r].response.headers)) = 1
         /\ call[r].response.body = call[r].chunks
    /\ Len(CacheControls(call[r].headers)) <= 1
    /\ call[r].ssr <=> call[r].mode \in {"ok", "error"}
    /\ call[r].ssr => call[r].stat = -1
    /\ call[r].mode = "ok" => call[r].error = ""
    /\ call[r].mode = "error" => call[r].error # ""
    /\ call[r].pc = "rewrite" =>
         Len(CacheControls(call[r].headers)) = 1 /\ (call[r].ssr \/ call[r].stat # -1)

\* C20 witness: the render callback returned no text, and the response built
\* on the static path carries the one Cache-Control value of that path
C20_Witness ==
  \E r \in Active :
    /\ call[r].pc = "done" /\ call[r].response.status = 200
    /\ call[r].rendered = 1 /\ ~call[r].ssr /\ call[r].stat = 2000
    /\ CacheControls(call[r].response.headers) = <<NoCache>>
    /\ Len(call[r].response.headers) = 3

=============================================================================
